---- MODULE Spec2Model ----
(***************************************************************************)
(* A model of pycog: the TIFF/COG reader (pycog/reader.py) and writer      *)
(* (pycog/writer.py) at the level of bytes.  A byte string is a sequence   *)
(* of integers 0..255; Python's 0-based half-open slices are modelled by   *)
(* Slice.  Exceptions are modelled as an explicit error outcome.           *)
(***************************************************************************)
EXTENDS Integers, Sequences, FiniteSets, TLC

VARIABLES
    h_pc, h_in, h_bytes, h_out,      \* the header round trip (write_header, read_header)
    desc, src,                       \* the input file: its description and its bytes
    pc, phase, err,                  \* control: where the caller is, which open_cog runs
    b, hdr, next_ifd_offset, tag_start, ifds, visited,   \* open_cog's locals
    cog, pre, dst, out, cog2,        \* the Cog, its state before write_cog, the output
    geokeys,                         \* the geokeys each GeoKeyDirectory parsed
    rt, out2                         \* read_tile's result; a second write_cog's

hvars == <<h_pc, h_in, h_bytes, h_out>>
mvars == <<desc, src, pc, phase, err, b, hdr, next_ifd_offset, tag_start, ifds,
           visited, cog, pre, dst, out, cog2, geokeys, rt, out2>>
vars == <<hvars, mvars>>

\* ------------------------------------------------------------------ bounds
MaxIfds == 2
MaxTiles == 2
MaxParsed == 3

\* ------------------------------------------------------------------ bytes
Min(x, y) == IF x < y THEN x ELSE y
Max(x, y) == IF x < y THEN y ELSE x

Reverse(s) == [i \in 1..Len(s) |-> s[Len(s) + 1 - i]]

\* Python b[lo:hi] for 0 <= lo: clipped to the buffer, never an error.
Slice(s, lo, hi) == SubSeq(s, lo + 1, Min(hi, Len(s)))

RECURSIVE ToBytesLE(_, _)
ToBytesLE(n, len) ==
    IF len = 0 THEN <<>> ELSE <<n % 256>> \o ToBytesLE(n \div 256, len - 1)

RECURSIVE FromBytesLE(_)
FromBytesLE(bs) ==
    IF bs = <<>> THEN 0 ELSE bs[1] + 256 * FromBytesLE(Tail(bs))

\* int.to_bytes(len, byteorder) and int.from_bytes(bytes, byteorder)
to_bytes(n, len, endian) ==
    IF endian = "little" THEN ToBytesLE(n, len) ELSE Reverse(ToBytesLE(n, len))

from_bytes(bs, endian) ==
    IF endian = "little" THEN FromBytesLE(bs) ELSE FromBytesLE(Reverse(bs))

RECURSIVE Flatten(_)
Flatten(ss) == IF ss = <<>> THEN <<>> ELSE ss[1] \o Flatten(Tail(ss))

RECURSIVE SumSeq(_)
SumSeq(s) == IF s = <<>> THEN 0 ELSE s[1] + SumSeq(Tail(s))

\* ------------------------------------------------------------------ types.py
Endian == {"big", "little"}
TiffVersion == {42, 43}

\* TAG_TYPES: field-type code -> length in bytes (the format character decides
\* only how the bytes of one value are read; the model holds integer formats).
TAG_TYPE_CODES == {1, 2, 3, 4, 5, 7, 12, 16}
TAG_TYPES(code) ==
    CASE code = 1 -> 1
      [] code = 2 -> 1
      [] code = 3 -> 2
      [] code = 4 -> 4
      [] code = 5 -> 4
      [] code = 7 -> 1
      [] code = 12 -> 8
      [] code = 16 -> 8

\* ------------------------------------------------------------------ header
II == <<73, 73>>
MM == <<77, 77>>

\* reader.py _ENDIAN_BYTES / read_endian: a KeyError for any other magic.
read_endian(bs) ==
    IF bs = MM THEN "big" ELSE IF bs = II THEN "little" ELSE "KeyError"

\* writer.py _ENDIAN_BYTES_REVERSE / write_endian
write_endian(endian) == IF endian = "big" THEN MM ELSE II

read_header(bs) ==
    LET endian == read_endian(Slice(bs, 0, 2)) IN
    IF endian = "KeyError" THEN [ok |-> FALSE, error |-> "KeyError"]
    ELSE LET version == from_bytes(Slice(bs, 2, 4), endian) IN
         IF version \notin TiffVersion THEN [ok |-> FALSE, error |-> "ValueError"]
         ELSE [ok |-> TRUE,
               header |-> [endian |-> endian, version |-> version,
                           first_ifd_offset |-> from_bytes(Slice(bs, 4, 8), endian)]]

write_header_wrong_order(header) ==
    write_endian(header.endian)
        \o to_bytes(header.version, 2, header.endian)
        \o to_bytes(header.first_ifd_offset, 4, "little")

write_header(header) ==
    write_endian(header.endian)
        \o to_bytes(header.version, 2, header.endian)
        \o to_bytes(header.first_ifd_offset, 4, header.endian)

\* ------------------------------------------------------- header round trip
HeaderOffsets ==
    {0, 1, 8, 255, 256, 257, 4660, 65535, 65536, 65537, 16909060, 67305985,
     2130706432, 2147483647}

HNone == [ok |-> FALSE, error |-> "none"]

\* No read_tile call yet.
RtNone == [kind |-> "none"]

\* write_cog's dst_codec = None.
NoCodec == [kind |-> "none", photometric |-> 0, fail_at |-> 0, grow |-> FALSE]

HInit ==
    /\ h_pc = "init"
    /\ h_in \in [endian : Endian, version : TiffVersion, first_ifd_offset : HeaderOffsets]
    /\ h_bytes = <<>>
    /\ h_out = HNone

HWrite ==
    /\ h_pc = "init"
    /\ h_bytes' = write_header(h_in)
    /\ h_pc' = "written"
    /\ UNCHANGED <<h_in, h_out>>
    /\ UNCHANGED mvars

HRead ==
    /\ h_pc = "written"
    /\ h_out' = read_header(h_bytes)
    /\ h_pc' = "read"
    /\ UNCHANGED <<h_in, h_bytes>>
    /\ UNCHANGED mvars

MIdle ==
    /\ desc = <<>> /\ src = <<>> /\ pc = "idle" /\ phase = 0 /\ err = "none"
    /\ b = <<>> /\ hdr = HNone /\ next_ifd_offset = 0 /\ tag_start = -1
    /\ ifds = <<>> /\ visited = <<>> /\ cog = <<>> /\ pre = <<>> /\ dst = NoCodec
    /\ out = <<>> /\ cog2 = <<>>
    /\ geokeys = <<>> /\ rt = RtNone /\ out2 = <<>>

HeaderInit == HInit /\ MIdle
HeaderNext == HWrite \/ HRead
HeaderSpec == HeaderInit /\ [][HeaderNext]_vars

\* C2: header round trip. read_header(write_header(Header(e, v, k))) is
\* Header(e, v, k); write_header emits exactly 8 bytes, the first two 'II' or
\* 'MM', and bytes 4..8 read as a u32 in endianness e equal k.
C2_HeaderRoundTrip ==
    /\ h_pc \in {"written", "read"} =>
          /\ Len(h_bytes) = 8
          /\ SubSeq(h_bytes, 1, 2) \in {II, MM}
          /\ (SubSeq(h_bytes, 1, 2) = II) = (h_in.endian = "little")
          /\ LET tail == SubSeq(h_bytes, 5, 8) IN
             h_in.first_ifd_offset =
                IF h_in.endian = "little"
                THEN tail[1] + 256 * tail[2] + 65536 * tail[3] + 16777216 * tail[4]
                ELSE tail[4] + 256 * tail[3] + 65536 * tail[2] + 16777216 * tail[1]
    /\ h_pc = "read" => h_out = [ok |-> TRUE, header |-> h_in]

C2_Witness ==
    /\ h_pc = "read"
    /\ h_in.endian = "big"
    /\ h_in.first_ifd_offset = 16909060
    /\ h_out.ok

\* ------------------------------------------------------------------ tags.py
NewSubfileType == 254
ImageWidth == 256
ImageHeight == 257
BitsPerSample == 258
Compression == 259
PhotometricInterpretation == 262
SamplesPerPixel == 277
XResolution == 282
YResolution == 283
PlanarConfiguration == 284
ResolutionUnit == 296
TileWidth == 322
TileHeight == 323
TileOffsets == 324
TileByteCounts == 325
ExtraSamples == 338
SampleFormat == 339
JPEGTables == 347
ModelPixelScale == 33550
ModelTiePoint == 33922
GeoKeyDirectory == 34735
GeoAsciiParams == 34737

\* TagRegistry.register_baseline and register_geotiff: the registry after startup.
register_baseline ==
    {NewSubfileType, ImageWidth, ImageHeight, BitsPerSample, Compression,
     PhotometricInterpretation, SamplesPerPixel, XResolution, YResolution,
     PlanarConfiguration, ResolutionUnit, TileWidth, TileHeight, TileOffsets,
     TileByteCounts, ExtraSamples, SampleFormat, JPEGTables}

register_geotiff == {ModelPixelScale, ModelTiePoint, GeoKeyDirectory, GeoAsciiParams}

tag_registry == register_baseline \cup register_geotiff

\* ------------------------------------------------------------------ struct
\* struct.pack(f"{endian}{count}{format}", *value): an error unless there are
\* exactly count values and each fits the format.
RECURSIVE Fits(_, _)
Fits(n, len) == IF len = 0 THEN n = 0 ELSE IF len >= 4 THEN n >= 0 ELSE Fits(n \div 256, len - 1)

pack_ok(count, type, value) ==
    /\ Len(value) = count
    /\ \A i \in 1..Len(value) : value[i] >= 0 /\ Fits(value[i], TAG_TYPES(type))

pack(endian, type, value) ==
    Flatten([i \in 1..Len(value) |-> to_bytes(value[i], TAG_TYPES(type), endian)])

\* struct.unpack(f"{endian}{count}{format}", data): an error unless data holds
\* exactly count * length bytes.
unpack_ok(count, type, data) == Len(data) = count * TAG_TYPES(type)

unpack(endian, count, type, data) ==
    LET len == TAG_TYPES(type) IN
    [i \in 1..count |-> from_bytes(SubSeq(data, (i - 1) * len + 1, i * len), endian)]

\* ------------------------------------------------------------------ dict
\* A Python dict keyed by tag name, in insertion order: a sequence of tags with
\* distinct ids (a tag class has one name and one id).
HasTag(tags, id) == \E i \in 1..Len(tags) : tags[i].id = id
TagIndex(tags, id) == CHOOSE i \in 1..Len(tags) : tags[i].id = id
GetTag(tags, id) == tags[TagIndex(tags, id)]

\* tags[tag.name] = tag
DictSet(tags, tag) ==
    IF HasTag(tags, tag.id) THEN [tags EXCEPT ![TagIndex(tags, tag.id)] = tag]
    ELSE Append(tags, tag)

\* del tags[name]
DictDel(tags, id) ==
    LET k == TagIndex(tags, id) IN
    [i \in 1..(Len(tags) - 1) |-> IF i < k THEN tags[i] ELSE tags[i + 1]]

TagIds(tags) == [i \in 1..Len(tags) |-> tags[i].id]

\* ------------------------------------------------------------------ geokeys.py
\* GeoKeyRegistry after import: the ids of the registered geokey classes.
geokey_registry ==
    {1024, 1025, 1026, 2048, 2049, 2050, 2051, 2052, 2053, 2054, 2055, 2056, 2057,
     2058, 2059, 2060, 3072, 3076}

\* geokey_cls(tag_location, count, value_offset): the __post_init__ of the class
\* raises for a value outside its enumeration; the two citation classes slice
\* value_offset, which is an integer here (a TypeError).
geokey_init_ok(id, value_offset) ==
    CASE id = 1024 -> value_offset \in 1..3
      [] id = 1025 -> value_offset \in 1..2
      [] id \in {1026, 2049} -> FALSE
      [] id = 2054 -> value_offset \in 9101..9108
      [] id = 3076 -> value_offset \in 9001..9015
      [] OTHER -> TRUE

\* The geokey object: parsed_value is set by the classes that interpret the
\* value, and is None for the others.
geokey(id, tag_location, count, value_offset) ==
    [id |-> id, tag_location |-> tag_location, count |-> count,
     value_offset |-> value_offset,
     parsed_value |-> IF id \in {1024, 1025, 2054, 3072, 3076}
                      THEN <<value_offset>> ELSE <<>>]

\* ---------------------------------------------------- tags.py GeoKeyDirectory
\* [self.value[i:i + 4] for i in range(0, len(self.value), 4)]
geokey_chunks(value) ==
    [k \in 1..((Len(value) + 3) \div 4) |-> Slice(value, 4 * (k - 1), 4 * k)]

\* The for loop of __post_init__ over the geokeys, from chunk k on: a geokey
\* with a tag location is skipped; any other is built by the class the registry
\* gives, and the registry gives None for an id it does not hold.
RECURSIVE geokey_loop(_, _, _)
geokey_loop(chunks, k, parsed) ==
    IF k > Len(chunks) THEN [ok |-> TRUE, keys |-> parsed]
    ELSE IF Len(chunks[k]) # 4 THEN [ok |-> FALSE, error |-> "ValueError"]
    ELSE IF chunks[k][2] # 0 THEN geokey_loop(chunks, k + 1, parsed)
    ELSE IF chunks[k][1] \notin geokey_registry THEN [ok |-> FALSE, error |-> "TypeError"]
    ELSE IF ~geokey_init_ok(chunks[k][1], chunks[k][4])
    THEN [ok |-> FALSE, error |-> "ValueError"]
    ELSE geokey_loop(chunks, k + 1,
            Append(parsed, geokey(chunks[k][1], chunks[k][2], chunks[k][3], chunks[k][4])))

\* GeoKeyDirectory.__post_init__: the header chunk, the assert on the number of
\* keys, then the loop.
GeoKeyDirectory_post_init(value) ==
    LET chunks == geokey_chunks(value) IN
    IF chunks = <<>> THEN [ok |-> FALSE, error |-> "IndexError"]
    ELSE IF Len(chunks[1]) # 4 THEN [ok |-> FALSE, error |-> "ValueError"]
    ELSE IF chunks[1][4] # Len(chunks) - 1 THEN [ok |-> FALSE, error |-> "AssertionError"]
    ELSE geokey_loop(chunks, 2, <<>>)

\* gkd.parse_from_tags(tags): each parsed geokey that names a tag of the IFD
\* takes its value from that tag, count values from index value_offset on.
parse_from_tags(keys, tags) ==
    [k \in 1..Len(keys) |->
        IF keys[k].tag_location # 0 /\ HasTag(tags, keys[k].tag_location)
        THEN [keys[k] EXCEPT !.parsed_value =
                 Slice(GetTag(tags, keys[k].tag_location).value,
                       keys[k].value_offset, keys[k].value_offset + keys[k].count)]
        ELSE keys[k]]

\* The geokeys of an IFD whose tags are built: none without a GeoKeyDirectory.
ifd_geokeys(tags) ==
    IF HasTag(tags, GeoKeyDirectory)
    THEN parse_from_tags(GeoKeyDirectory_post_init(GetTag(tags, GeoKeyDirectory).value).keys, tags)
    ELSE <<>>

\* ------------------------------------------------------------------ reader.py
\* open_cog's default header_size: the prefix of the source that is parsed.
header_size_default == 65536

\* One 12-byte entry at tag_start (the body of open_cog's for loop).
parse_tag(buf, endian, ts) ==
    LET tag_code == from_bytes(Slice(buf, ts, ts + 2), endian) IN
    IF tag_code \notin tag_registry THEN [kind |-> "skip"]
    ELSE
    LET data_type == from_bytes(Slice(buf, ts + 2, ts + 4), endian) IN
    IF data_type \notin TAG_TYPE_CODES THEN [kind |-> "error", error |-> "KeyError"]
    ELSE
    LET count == from_bytes(Slice(buf, ts + 4, ts + 8), endian)
        size == count * TAG_TYPES(data_type)
        value_offset == from_bytes(Slice(buf, ts + 8, ts + 12), endian)
        tag_value == IF size <= 4 THEN Slice(buf, ts + 8, ts + 8 + size)
                     ELSE Slice(buf, value_offset, value_offset + size)
    IN  IF ~unpack_ok(count, data_type, tag_value)
        THEN [kind |-> "error", error |-> "struct.error"]
        ELSE IF tag_code = GeoKeyDirectory
                /\ ~GeoKeyDirectory_post_init(unpack(endian, count, data_type, tag_value)).ok
        THEN [kind |-> "error",
              error |-> GeoKeyDirectory_post_init(
                           unpack(endian, count, data_type, tag_value)).error]
        ELSE [kind |-> "tag",
              tag |-> [id |-> tag_code, type |-> data_type, count |-> count,
                       size |-> size,
                       value |-> unpack(endian, count, data_type, tag_value)]]

\* Mutant: an unknown tag code ends the for loop (break for continue).
RECURSIVE parse_tags_break(_, _, _, _, _, _)
parse_tags_break(buf, endian, off, tag_count, idx, tags) ==
    IF idx >= tag_count THEN [ok |-> TRUE, tags |-> tags]
    ELSE LET r == parse_tag(buf, endian, off + 2 + 12 * idx) IN
         IF r.kind = "error" THEN [ok |-> FALSE, error |-> r.error]
         ELSE IF r.kind = "skip" THEN [ok |-> TRUE, tags |-> tags]
         ELSE parse_tags_break(buf, endian, off, tag_count, idx + 1, DictSet(tags, r.tag))

\* The for loop over the tag_count entries of the IFD at off, from entry idx on.
RECURSIVE parse_tags(_, _, _, _, _, _)
parse_tags(buf, endian, off, tag_count, idx, tags) ==
    IF idx >= tag_count THEN [ok |-> TRUE, tags |-> tags]
    ELSE LET r == parse_tag(buf, endian, off + 2 + 12 * idx) IN
         IF r.kind = "error" THEN [ok |-> FALSE, error |-> r.error]
         ELSE parse_tags(buf, endian, off, tag_count, idx + 1,
                         IF r.kind = "skip" THEN tags ELSE DictSet(tags, r.tag))

\* tag_start after the for loop: the start of the last entry, whether or not
\* that entry was skipped; left as it was when the loop body never ran.
last_tag_start(off, tag_count, old) ==
    IF tag_count = 0 THEN old ELSE off + 2 + 12 * (tag_count - 1)

\* open_cog up to the while loop: read the prefix and the header.
OpenStart(source, ph) ==
    /\ phase' = ph
    /\ b' = Slice(source, 0, header_size_default)
    /\ LET h == read_header(Slice(source, 0, header_size_default)) IN
       /\ hdr' = h
       /\ IF h.ok
          THEN /\ next_ifd_offset' = h.header.first_ifd_offset
               /\ pc' = "loop"
               /\ err' = "none"
          ELSE /\ next_ifd_offset' = 0
               /\ pc' = "open_failed"
               /\ err' = h.error
    /\ tag_start' = -1
    /\ ifds' = <<>>
    /\ visited' = <<>>
    /\ geokeys' = <<>>

open_cog ==
    /\ pc = "start"
    /\ OpenStart(src, 1)
    /\ UNCHANGED <<desc, src, cog, pre, dst, out, cog2, rt, out2>>
    /\ UNCHANGED hvars

\* One iteration of the while loop: one IFD.
read_ifd ==
    /\ pc = "loop"
    /\ next_ifd_offset # 0
    /\ Len(ifds) < MaxParsed
    /\ LET endian == hdr.header.endian
           tag_count == from_bytes(Slice(b, next_ifd_offset, next_ifd_offset + 2), endian)
           r == parse_tags(b, endian, next_ifd_offset, tag_count, 0, <<>>)
           ts == last_tag_start(next_ifd_offset, tag_count, tag_start)
       IN
       /\ visited' = Append(visited, next_ifd_offset)
       /\ IF ~r.ok
          THEN /\ pc' = "open_failed" /\ err' = r.error
               /\ UNCHANGED <<tag_start, next_ifd_offset, ifds, geokeys>>
          ELSE IF ts < 0
          THEN \* tag_start is read before any assignment: UnboundLocalError
               /\ pc' = "open_failed" /\ err' = "UnboundLocalError"
               /\ UNCHANGED <<tag_start, next_ifd_offset, ifds, geokeys>>
          ELSE LET next == from_bytes(Slice(b, ts + 12, ts + 16), endian) IN
               /\ tag_start' = ts
               /\ next_ifd_offset' = next
               /\ ifds' = Append(ifds, [tag_count |-> tag_count,
                                        next_ifd_offset |-> next,
                                        tags |-> r.tags])
               /\ geokeys' = IF HasTag(r.tags, GeoKeyDirectory)
                              THEN Append(geokeys, [ifd |-> Len(ifds) + 1,
                                                    keys |-> ifd_geokeys(r.tags)])
                              ELSE geokeys
               /\ UNCHANGED <<pc, err>>
    /\ UNCHANGED <<desc, src, phase, b, hdr, cog, pre, dst, out, cog2, rt, out2>>
    /\ UNCHANGED hvars

\* The while loop ends: open_cog returns the Cog.
open_return ==
    /\ pc = "loop"
    /\ next_ifd_offset = 0
    /\ IF phase = 1
       THEN /\ cog' = [header |-> hdr.header, ifds |-> ifds]
            /\ pc' = "opened"
            /\ UNCHANGED cog2
       ELSE /\ cog2' = [header |-> hdr.header, ifds |-> ifds]
            /\ pc' = "reopened"
            /\ UNCHANGED cog
    /\ UNCHANGED <<desc, src, phase, err, b, hdr, next_ifd_offset, tag_start, ifds,
                   visited, pre, dst, out, geokeys, rt, out2>>
    /\ UNCHANGED hvars

\* ------------------------------------------------------------------ inputs
\* The files handed to open_cog. A file is described by its endianness and, per
\* IFD, its on-disk entries and its tile payloads; Build lays the description
\* out as bytes: the header, a ghost area, every IFD body followed by its
\* out-of-line values (last entry's value first), then the tile payloads in
\* IFD order. Inline values are padded with PadByte.
GhostLen == 4
PadByte == 170

Entry(code, type, value) == [code |-> code, type |-> type, count |-> Len(value), value |-> value]

\* The length of one value of an on-disk entry; an entry may carry a field type
\* that TAG_TYPES does not hold (its values are then single bytes).
FieldLen(type) == IF type \in TAG_TYPE_CODES THEN TAG_TYPES(type) ELSE 1

entry_size(e) == e.count * FieldLen(e.type)

RawValue(endian, e) ==
    Flatten([i \in 1..Len(e.value) |-> to_bytes(e.value[i], FieldLen(e.type), endian)])

RECURSIVE large_size(_)
large_size(entries) ==
    IF entries = <<>> THEN 0
    ELSE (IF entry_size(entries[1]) > 4 THEN entry_size(entries[1]) ELSE 0)
         + large_size(Tail(entries))

ifd_extent(entries) == 2 + 12 * Len(entries) + 4 + large_size(entries)

\* The payload of tile j of IFD i: i + j bytes, each 16 * i + j.
TilePayload(i, j) == [k \in 1..(i + j) |-> 16 * i + j]

\* The number of tiles of IFD i in a file whose first IFD has n tiles.
TilesOf(i, n) == IF i = 1 THEN n ELSE Max(n - 1, Min(n, 1))

Zeros(n) == [k \in 1..n |-> 0]

JpegEntries(n, tables) ==
    <<Entry(ImageWidth, 4, <<64>>),
      Entry(BitsPerSample, 3, <<8, 8, 8>>),
      Entry(Compression, 3, <<7>>),
      Entry(PhotometricInterpretation, 3, <<6>>),
      Entry(PlanarConfiguration, 3, <<1>>),
      Entry(TileWidth, 3, <<32>>),
      Entry(TileOffsets, 4, Zeros(n)),
      Entry(TileByteCounts, 4, Zeros(n))>>
    \o (IF tables THEN <<Entry(JPEGTables, 7, <<255, 216, 255, 219, 217>>)>> ELSE <<>>)

DeflateEntries(n, tables) ==
    <<Entry(ImageWidth, 3, <<20>>),
      Entry(BitsPerSample, 3, <<8>>),
      Entry(Compression, 3, <<8>>),
      Entry(SamplesPerPixel, 3, <<1>>),
      Entry(TileWidth, 3, <<32>>),
      Entry(TileHeight, 3, <<32>>),
      Entry(TileOffsets, 4, Zeros(n)),
      Entry(TileByteCounts, 3, Zeros(n)),
      Entry(SampleFormat, 3, <<1>>)>>
    \o (IF tables THEN <<Entry(JPEGTables, 7, <<255, 216, 255, 219, 217>>)>> ELSE <<>>)

\* A tiled file whose Compression (5, LZW) the codec registry does not hold.
LzwEntries(n) ==
    <<Entry(ImageWidth, 3, <<64>>),
      Entry(Compression, 3, <<5>>),
      Entry(TileWidth, 3, <<32>>),
      Entry(TileOffsets, 4, Zeros(n)),
      Entry(TileByteCounts, 4, Zeros(n))>>

\* The file of the repository's round-trip script: ImageWidth and ImageHeight only.
BareEntries == <<Entry(ImageWidth, 3, <<100>>), Entry(ImageHeight, 4, <<100, 200>>)>>

KindEntries(kind, n, tables) ==
    CASE kind = "jpeg" -> JpegEntries(n, tables)
      [] kind = "deflate" -> DeflateEntries(n, tables)
      [] kind = "bare" -> BareEntries
      [] kind = "lzw" -> LzwEntries(n)

\* Entries whose code no registry holds (255 SubfileType, 270 ImageDescription,
\* 400); the first has a field type that TAG_TYPES does not hold either.
UnknownFirst == Entry(255, 6, <<9, 9>>)
UnknownMid == Entry(270, 2, <<97, 98, 99, 100, 101, 102>>)
UnknownLast == Entry(400, 3, <<9, 9>>)

\* GeoTIFF entries: a GeoKeyDirectory and the GeoAsciiParams "WGS84|". The
\* directories hold two keys each: direct ones (tag location 0), ones that
\* point into GeoAsciiParams, and ones whose id (9999) no registry holds.
GeoVariants == {"geo_direct", "geo_indirect", "geo_unknown_indirect", "geo_unknown_direct"}

GeoDirectory(variant) ==
    CASE variant = "geo_direct" -> <<1, 1, 0, 2, 1024, 0, 1, 1, 3072, 0, 1, 32633>>
      [] variant = "geo_indirect" -> <<1, 1, 0, 2, 1024, 0, 1, 1, 2049, 34737, 5, 0>>
      [] variant = "geo_unknown_indirect" -> <<1, 1, 0, 2, 9999, 34737, 1, 0, 1025, 0, 1, 2>>
      [] variant = "geo_unknown_direct" -> <<1, 1, 0, 2, 9999, 0, 1, 5, 1024, 0, 1, 1>>

GeoEntries(variant) ==
    <<Entry(GeoKeyDirectory, 3, GeoDirectory(variant)),
      Entry(GeoAsciiParams, 2, <<87, 71, 83, 56, 52, 124>>)>>

InsertAt(s, k, e) == SubSeq(s, 1, k) \o <<e>> \o SubSeq(s, k + 1, Len(s))

\* Files damaged after they were laid out: a magic that is neither II nor MM, a
\* version that is neither 42 nor 43, a buffer cut inside the 8-byte header, and
\* an out-of-line value whose offset points beyond, or across, the end of the
\* buffer.
FatalVariants == {"bad_magic", "bad_version", "truncated", "value_outside", "value_straddles"}

Variants == {"plain", "unknown_first", "unknown_mid", "unknown_last", "unknown_all",
             "zero_tags", "dangling", "unsorted"} \cup FatalVariants \cup GeoVariants

\* The entries of IFD i of nifds under a variant.
VariantEntries(entries, variant, i, nifds) ==
    CASE variant = "unknown_first" -> <<UnknownFirst>> \o entries
      [] variant = "unknown_mid" -> InsertAt(entries, 1, UnknownMid)
      [] variant = "unknown_last" -> Append(entries, UnknownLast)
      [] variant = "unknown_all" ->
            IF i = nifds
            THEN [k \in 1..Len(entries) |-> [entries[k] EXCEPT !.code = 1000 + k]]
            ELSE entries
      [] variant = "zero_tags" -> IF i = nifds THEN <<>> ELSE entries
      [] variant = "unsorted" ->
            <<entries[2], entries[1]>> \o SubSeq(entries, 3, Len(entries))
      [] variant \in GeoVariants -> entries \o GeoEntries(variant)
      [] OTHER -> entries

Params ==
    [endian : Endian, nifds : 1..MaxIfds, kind : {"jpeg", "deflate", "bare", "lzw"},
     ntiles : 0..MaxTiles, tables : BOOLEAN, variant : Variants, cut : 0..7]

\* Parameters that describe the same file are taken once.
ParamOk(p) ==
    /\ p.kind = "bare" => p.ntiles = 0 /\ ~p.tables
    /\ p.kind = "lzw" => p.variant = "plain" /\ p.ntiles >= 1 /\ ~p.tables
    /\ p.variant # "truncated" => p.cut = 0
    /\ p.variant \in FatalVariants =>
          p.kind = "jpeg" /\ p.nifds = 1 /\ p.ntiles = 1 /\ ~p.tables
    /\ p.variant \in GeoVariants => p.kind = "jpeg" /\ p.ntiles = 1 /\ p.tables

RawEntries(p, i) ==
    VariantEntries(KindEntries(p.kind, TilesOf(i, p.ntiles), p.tables), p.variant, i, p.nifds)

RECURSIVE IfdStart(_, _)
IfdStart(p, i) ==
    IF i = 1 THEN 8 + GhostLen ELSE IfdStart(p, i - 1) + ifd_extent(RawEntries(p, i - 1))

TileRegion(p) == IfdStart(p, p.nifds + 1)

RECURSIVE TileLen(_, _)
\* The bytes of the tiles 1..j of IFD i.
TileLen(i, j) == IF j = 0 THEN 0 ELSE TileLen(i, j - 1) + i + j

RECURSIVE InTileStart(_, _)
\* Where the tiles of IFD i start in the input: after those of the IFDs before it.
InTileStart(p, i) ==
    IF i = 1 THEN TileRegion(p)
    ELSE InTileStart(p, i - 1) + TileLen(i - 1, TilesOf(i - 1, p.ntiles))

InTileOffset(p, i, j) == InTileStart(p, i) + TileLen(i, j - 1)

FileLen(p) == InTileStart(p, p.nifds + 1)

\* The entries of IFD i with the tile offsets and byte counts of the layout.
FilledEntries(p, i) ==
    LET raw == RawEntries(p, i) IN
    [k \in 1..Len(raw) |->
        IF raw[k].code = TileOffsets
        THEN [raw[k] EXCEPT !.value = [j \in 1..raw[k].count |-> InTileOffset(p, i, j)]]
        ELSE IF raw[k].code = TileByteCounts
        THEN [raw[k] EXCEPT !.value = [j \in 1..raw[k].count |-> i + j]]
        ELSE raw[k]]

NextOf(p, i) ==
    IF i < p.nifds THEN IfdStart(p, i + 1)
    ELSE IF p.variant = "dangling" THEN FileLen(p) + 64 ELSE 0

MakeDesc(p) ==
    [endian |-> p.endian,
     ifds |-> [i \in 1..p.nifds |->
                 [start |-> IfdStart(p, i),
                  entries |-> FilledEntries(p, i),
                  next |-> NextOf(p, i),
                  tiles |-> [j \in 1..TilesOf(i, p.ntiles) |-> TilePayload(i, j)]]],
     variant |-> p.variant, kind |-> p.kind, cut |-> p.cut]

\* Where entry k's out-of-line value lies: after the body, behind the values of
\* the entries after k.
ValueOffset(d, k) ==
    d.start + 2 + 12 * Len(d.entries) + 4 + large_size(SubSeq(d.entries, k + 1, Len(d.entries)))

PadTo4(bs) == bs \o [k \in 1..(4 - Len(bs)) |-> PadByte]

EntryBytes(d, k, endian) ==
    LET e == d.entries[k] IN
    to_bytes(e.code, 2, endian) \o to_bytes(e.type, 2, endian) \o to_bytes(e.count, 4, endian)
      \o (IF entry_size(e) <= 4 THEN PadTo4(RawValue(endian, e))
          ELSE to_bytes(ValueOffset(d, k), 4, endian))

LargeBytes(d, endian) ==
    Flatten([k \in 1..Len(d.entries) |->
        LET e == d.entries[Len(d.entries) + 1 - k] IN
        IF entry_size(e) > 4 THEN RawValue(endian, e) ELSE <<>>])

IfdBytes(d, endian) ==
    to_bytes(Len(d.entries), 2, endian)
      \o Flatten([k \in 1..Len(d.entries) |-> EntryBytes(d, k, endian)])
      \o to_bytes(d.next, 4, endian)
      \o LargeBytes(d, endian)

Build(d) ==
    write_endian(d.endian) \o to_bytes(42, 2, d.endian)
      \o to_bytes(8 + GhostLen, 4, d.endian)
      \o [k \in 1..GhostLen |-> 71]
      \o Flatten([i \in 1..Len(d.ifds) |-> IfdBytes(d.ifds[i], d.endian)])
      \o Flatten([i \in 1..Len(d.ifds) |-> Flatten(d.ifds[i].tiles)])

Patch(bs, off, new) == SubSeq(bs, 1, off) \o new \o SubSeq(bs, off + Len(new) + 1, Len(bs))

\* Where the value-or-offset field of entry k of the first IFD lies.
ValueField(d, k) == d.ifds[1].start + 2 + 12 * (k - 1) + 8

\* The file as open_cog is given it. Entry 2 of a damaged file is its
\* BitsPerSample, three SHORTs stored out of line.
Damage(bs, d) ==
    CASE d.variant = "bad_magic" -> Patch(bs, 0, <<73, 77>>)
      [] d.variant = "bad_version" -> Patch(bs, 2, to_bytes(44, 2, d.endian))
      [] d.variant = "truncated" -> SubSeq(bs, 1, d.cut)
      [] d.variant = "value_outside" ->
            Patch(bs, ValueField(d, 2), to_bytes(Len(bs) + 16, 4, d.endian))
      [] d.variant = "value_straddles" ->
            Patch(bs, ValueField(d, 2), to_bytes(Len(bs) - 2, 4, d.endian))
      [] OTHER -> bs

\* ------------------------------------------------------------------ codecs.py
\* CodecRegistry after import: Jpeg (id 7) and Deflate (id 8).
Jpeg_id == 7
Deflate_id == 8
codec_registry == {Jpeg_id, Deflate_id}

\* SAMPLE_DTYPES of pycog/constants.py: (SampleFormat, BitsPerSample) -> dtype.
SAMPLE_DTYPES ==
    {<<1, 8>>, <<1, 16>>, <<1, 32>>, <<2, 8>>, <<2, 16>>, <<2, 32>>, <<3, 32>>, <<3, 64>>}

HasValue(tags, id) == HasTag(tags, id) /\ Len(GetTag(tags, id).value) >= 1
Value0(tags, id) == GetTag(tags, id).value[1]

\* Jpeg.create_from_ifd / Deflate.create_from_ifd: whether the codec can be built
\* from the IFD's tags (a missing tag is a KeyError or an AttributeError).
create_from_ifd_ok(code, tags) ==
    IF code = Jpeg_id
    THEN /\ HasValue(tags, PhotometricInterpretation)
         /\ HasValue(tags, PlanarConfiguration)
         /\ HasTag(tags, ExtraSamples) => HasValue(tags, ExtraSamples)
         /\ HasValue(tags, BitsPerSample)
    ELSE /\ HasValue(tags, SampleFormat)
         /\ HasValue(tags, BitsPerSample)
         /\ <<Value0(tags, SampleFormat), Value0(tags, BitsPerSample)>> \in SAMPLE_DTYPES
         /\ HasValue(tags, TileWidth)
         /\ HasValue(tags, TileHeight)
         /\ HasValue(tags, SamplesPerPixel)

NewTag(id, type, value) ==
    [id |-> id, type |-> type, count |-> Len(value),
     size |-> Len(value) * TAG_TYPES(type), value |-> value]

\* Jpeg.create_tags / Deflate.create_tags of the destination codec d, in the
\* order of the returned dict. d.photometric is the PhotometricInterpretation
\* the codec emits, 0 for none: Jpeg's colorspace_data (None or 2, with no
\* subsampling), and RGB = 2 for a Deflate whose samples are 3 or 4.
create_tags(d) ==
    <<NewTag(Compression, 3, <<IF d.kind = "jpeg" THEN Jpeg_id ELSE Deflate_id>>)>>
    \o (IF d.photometric # 0
        THEN <<NewTag(PhotometricInterpretation, 3, <<d.photometric>>)>>
        ELSE <<>>)

\* dict.update(other): every key of other set in turn.
RECURSIVE DictUpdate(_, _)
DictUpdate(tags, other) ==
    IF other = <<>> THEN tags ELSE DictUpdate(DictSet(tags, other[1]), Tail(other))

\* The entropy coders are external. src_codec.decode(content, ifd, endian): the
\* Deflate of codecs.py takes (buf, out) and raises a TypeError on this call;
\* the Jpeg decoder is the library's, and rejects the tiles of IFD d.fail_at.
decode_ok(code, i, d) == code = Jpeg_id /\ d.fail_at # i

\* dst_codec.encode(decode(content)): the re-encoded payload, two bytes longer
\* or one byte shorter than the source payload.
encode(content, d) ==
    IF d.grow THEN <<255>> \o content \o <<217>>
    ELSE SubSeq(content, 1, Len(content) - 1)

\* Jpeg.delete_tags / Deflate.delete_tags: the ids of the tags the codec lists
\* (Predictor for Jpeg, none for Deflate).
Predictor == 317
delete_tags(d) == IF d.kind = "jpeg" THEN {Predictor} ELSE {}

DstCodecs ==
    {NoCodec} \cup
    [kind : {"jpeg", "deflate"}, photometric : {0, 2}, fail_at : 0..MaxIfds, grow : BOOLEAN]

\* ------------------------------------------------------------------ writer.py
SetValue(tags, id, value) ==
    [tags EXCEPT ![TagIndex(tags, id)] = [@ EXCEPT !.value = value]]

\* cog.file_handle.seek(tile_offset); cog.file_handle.read(tile_byte_count), for
\* every pair of zip(TileOffsets.value, TileByteCounts.value).
read_tiles(offs, counts, source) ==
    [j \in 1..Min(Len(offs), Len(counts)) |-> Slice(source, offs[j], offs[j] + counts[j])]

IfdFail(e, ifd) == [ok |-> FALSE, error |-> e, ifd |-> ifd, segs |-> <<>>]

\* "MORE HACKY STUFF": the tags after a transcode, JPEGTables deleted.
delete_tables(ifd, tags, encoded) ==
    IF ~HasTag(tags, JPEGTables) THEN IfdFail("KeyError", [ifd EXCEPT !.tags = tags])
    ELSE [ok |-> TRUE, ifd |-> [ifd EXCEPT !.tags = DictDel(tags, JPEGTables)],
          segs |-> encoded]

\* Mutant: the new byte counts collected in reverse tile order.
update_tags_reversed_counts(ifd, d, encoded) ==
    delete_tables(ifd,
        DictUpdate(SetValue(ifd.tags, TileByteCounts,
                            Reverse([j \in 1..Len(encoded) |-> Len(encoded[j])])),
                   create_tags(d)),
        encoded)

\* After the tile loop of a transcode: the new TileByteCounts and the
\* destination codec's tags.
update_tags(ifd, d, encoded) ==
    delete_tables(ifd,
        DictUpdate(SetValue(ifd.tags, TileByteCounts,
                            [j \in 1..Len(encoded) |-> Len(encoded[j])]),
                   create_tags(d)),
        encoded)

\* Mutant: the tag update of a transcode runs without a destination codec
\* too, and stores the byte counts it collected: none.
transcode_tiles_counts_reset(ifd, i, d, content) ==
    IF d.kind = "none"
    THEN IF \E j \in 1..Len(content) :
               Len(content[j]) # GetTag(ifd.tags, TileByteCounts).value[j]
         THEN IfdFail("AssertionError", ifd)
         ELSE [ok |-> TRUE,
               ifd |-> [ifd EXCEPT !.tags = SetValue(ifd.tags, TileByteCounts, <<>>)],
               segs |-> content]
    ELSE IF Len(content) > 0 /\ ~decode_ok(Value0(ifd.tags, Compression), i, d)
    THEN IfdFail("CodecFailure", ifd)
    ELSE update_tags(ifd, d, [j \in 1..Len(content) |-> encode(content[j], d)])

\* The tile loop of one IFD, given the tiles read from the source.
transcode_tiles(ifd, i, d, content) ==
    IF d.kind = "none"
    THEN IF \E j \in 1..Len(content) :
               Len(content[j]) # GetTag(ifd.tags, TileByteCounts).value[j]
         THEN IfdFail("AssertionError", ifd)
         ELSE [ok |-> TRUE, ifd |-> ifd, segs |-> content]
    ELSE IF Len(content) > 0 /\ ~decode_ok(Value0(ifd.tags, Compression), i, d)
    THEN IfdFail("CodecFailure", ifd)
    ELSE update_tags(ifd, d, [j \in 1..Len(content) |-> encode(content[j], d)])

\* The body of write_cog's first loop for IFD i: build the source codec, read
\* every tile, transcode it when a destination codec is given, and rewrite the
\* IFD's tags.
transcode_ifd(ifd, i, d, source) ==
    IF ~HasTag(ifd.tags, Compression) THEN IfdFail("KeyError", ifd)
    ELSE IF GetTag(ifd.tags, Compression).value = <<>> THEN IfdFail("IndexError", ifd)
    ELSE IF Value0(ifd.tags, Compression) \notin codec_registry
    THEN IfdFail("AttributeError", ifd)
    ELSE IF ~create_from_ifd_ok(Value0(ifd.tags, Compression), ifd.tags)
    THEN IfdFail("KeyError", ifd)
    ELSE IF ~HasTag(ifd.tags, TileOffsets) \/ ~HasTag(ifd.tags, TileByteCounts)
    THEN IfdFail("KeyError", ifd)
    ELSE transcode_tiles(ifd, i, d,
            read_tiles(GetTag(ifd.tags, TileOffsets).value,
                       GetTag(ifd.tags, TileByteCounts).value, source))

\* One step of the loop, given the outcome r for IFD i.
RECURSIVE transcode_loop(_, _, _, _, _)
transcode_step(cifds, i, d, source, segs, r) ==
    IF ~r.ok
    THEN [ok |-> FALSE, error |-> r.error, ifds |-> [cifds EXCEPT ![i] = r.ifd],
          segs |-> segs]
    ELSE transcode_loop([cifds EXCEPT ![i] = r.ifd], i - 1, d, source, segs \o r.segs)

\* for ifd in cog.ifds[::-1]: IFD i, then the IFDs before it.
transcode_loop(cifds, i, d, source, segs) ==
    IF i = 0 THEN [ok |-> TRUE, ifds |-> cifds, segs |-> segs]
    ELSE \* the outcome for IFD i is computed once
         CHOOSE res \in {transcode_step(cifds, i, d, source, segs, r) :
                            r \in {transcode_ifd(cifds[i], i, d, source)}} : TRUE

RECURSIVE tags_large_size(_)
tags_large_size(tags) ==
    IF tags = <<>> THEN 0
    ELSE (IF tags[1].size > 4 THEN tags[1].size ELSE 0) + tags_large_size(Tail(tags))

\* Cog.header_size: where the tile payloads start, 8 + the extent of every IFD
\* (its body and its out-of-line values).
RECURSIVE header_size(_)
header_size(cifds) ==
    IF cifds = <<>> THEN 8
    ELSE header_size(SubSeq(cifds, 1, Len(cifds) - 1))
         + 2 + 12 * Len(cifds[Len(cifds)].tags) + 4
         + tags_large_size(cifds[Len(cifds)].tags)

RECURSIVE new_offsets(_, _)
\* new_offsets of one IFD: one offset per byte count, from image_data_offset on.
new_offsets(byte_counts, image_data_offset) ==
    IF byte_counts = <<>> THEN <<>>
    ELSE <<image_data_offset>>
         \o new_offsets(Tail(byte_counts), image_data_offset + byte_counts[1])

\* Mutant: the tile offsets assigned walking the IFDs in file order.
RECURSIVE adjust_offsets_forward(_, _, _)
adjust_offsets_forward(cifds, i, image_data_offset) ==
    IF i = 0 THEN [ifds |-> cifds, image_data_offset |-> image_data_offset]
    ELSE LET k == Len(cifds) + 1 - i
             counts == GetTag(cifds[k].tags, TileByteCounts).value IN
         adjust_offsets_forward(
             [cifds EXCEPT ![k].tags =
                 SetValue(@, TileOffsets, new_offsets(counts, image_data_offset))],
             i - 1, image_data_offset + SumSeq(counts))

\* "Adjust tile offsets": IFD i, then the IFDs before it.
RECURSIVE adjust_offsets(_, _, _)
adjust_offsets(cifds, i, image_data_offset) ==
    IF i = 0 THEN [ifds |-> cifds, image_data_offset |-> image_data_offset]
    ELSE LET counts == GetTag(cifds[i].tags, TileByteCounts).value IN
         adjust_offsets(
             [cifds EXCEPT ![i].tags =
                 SetValue(@, TileOffsets, new_offsets(counts, image_data_offset))],
             i - 1, image_data_offset + SumSeq(counts))

\* The 12 bytes of one entry; value_offset is where an out-of-line value goes.
write_tag(tag, endian, value_offset) ==
    to_bytes(tag.id, 2, endian) \o to_bytes(tag.type, 2, endian)
      \o to_bytes(tag.count, 4, endian)
      \o (IF tag.size <= 4
          THEN LET v == pack(endian, tag.type, tag.value) IN v \o Zeros(4 - Len(v))
          ELSE to_bytes(value_offset, 4, endian))

\* Mutant: large_tag_offset never advanced.
large_before_zero(tags, k) == 0

\* large_tag_offset before the tag at index k: the sizes of the large tags before it.
large_before(tags, k) == tags_large_size(SubSeq(tags, 1, k - 1))

\* Mutant: the next IFD placed right after the body, over the large tag values.
next_ifd_start_body_only(start, tags) == start + (2 + 12 * Len(tags) + 4)

\* next_ifd_offset after an IFD that starts at start.
next_ifd_start(start, tags) == start + (2 + 12 * Len(tags) + 4) + tags_large_size(tags)

\* One IFD of the output: the count, the entries, the next-IFD offset, then the
\* large tag values.
write_ifd(ifd, start, last, endian) ==
    LET tags == ifd.tags
        ifd_size == 2 + 12 * Len(tags) + 4
    IN
    to_bytes(Len(tags), 2, endian)
      \o Flatten([k \in 1..Len(tags) |->
                    write_tag(tags[k], endian, start + ifd_size + large_before(tags, k))])
      \o to_bytes(IF last THEN 0 ELSE next_ifd_start(start, tags), 4, endian)
      \o Flatten([k \in 1..Len(tags) |->
                    IF tags[k].size > 4 THEN pack(endian, tags[k].type, tags[k].value)
                    ELSE <<>>])

RECURSIVE write_ifds(_, _, _, _)
write_ifds(cifds, idx, start, endian) ==
    IF idx > Len(cifds) THEN <<>>
    ELSE write_ifd(cifds[idx], start, idx = Len(cifds), endian)
         \o write_ifds(cifds, idx + 1, next_ifd_start(start, cifds[idx].tags), endian)

\* struct.pack raises for a tag whose value does not match its count and type.
ifds_pack_ok(cifds) ==
    \A i \in 1..Len(cifds) : \A k \in 1..Len(cifds[i].tags) :
        LET t == cifds[i].tags[k] IN pack_ok(t.count, t.type, t.value)

WriteFail(e, header, cifds) ==
    [ok |-> FALSE, error |-> e, cog |-> [header |-> header, ifds |-> cifds]]

\* Mutant: the writer before it stored image data ("TODO: Store image data").
write_checked_no_image_data(header, cifds, image_data_offset, cog_segments, image_segments) ==
    IF Len(cog_segments) # header_size(cifds)
    THEN WriteFail("AssertionError", header, cifds)
    ELSE [ok |-> TRUE, bytes |-> cog_segments,
          cog |-> [header |-> header, ifds |-> cifds]]

\* The two closing sanity checks, and the bytes returned.
write_checked(header, cifds, image_data_offset, cog_segments, image_segments) ==
    IF Len(cog_segments) # header_size(cifds)
    THEN WriteFail("AssertionError", header, cifds)
    ELSE IF Len(cog_segments) + Len(image_segments) # image_data_offset
    THEN WriteFail("AssertionError", header, cifds)
    ELSE [ok |-> TRUE, bytes |-> cog_segments \o image_segments,
          cog |-> [header |-> header, ifds |-> cifds]]

\* The header and the IFDs, written from the Cog with its new tile offsets.
write_segments(header, r2, image_segments) ==
    IF ~ifds_pack_ok(r2.ifds) THEN WriteFail("struct.error", header, r2.ifds)
    ELSE CHOOSE res \in
            {write_checked(header, r2.ifds, r2.image_data_offset, cs, image_segments) :
                cs \in {write_header(header)
                          \o write_ifds(r2.ifds, 1, header.first_ifd_offset, header.endian)}} :
            TRUE

\* From "Adjust tile offsets" on, given the outcome r1 of the first loop.
write_layout(header, r1) ==
    IF ~r1.ok THEN WriteFail(r1.error, header, r1.ifds)
    ELSE CHOOSE res \in
            {write_segments(header, r2, Flatten(r1.segs)) :
                r2 \in {adjust_offsets(r1.ifds, Len(r1.ifds), header_size(r1.ifds))}} :
            TRUE

\* write_cog(cog, dst_codec) on the byte source: the bytes returned, or the
\* error raised, and the Cog as the call leaves it.
write_result(c, source, d) ==
    CHOOSE res \in
        {write_layout([c.header EXCEPT !.first_ifd_offset = 8], r1) :
            r1 \in {transcode_loop(c.ifds, Len(c.ifds), d, source, <<>>)}} :
        TRUE

write_cog ==
    /\ pc = "opened"
    /\ \E d \in DstCodecs :
         \E r \in {write_result(cog, src, d)} :
         /\ dst' = d
         /\ pre' = cog
         /\ cog' = r.cog
         /\ IF r.ok
            THEN /\ out' = r.bytes /\ pc' = "written" /\ err' = "none"
            ELSE /\ out' = <<>> /\ pc' = "write_failed" /\ err' = r.error
    /\ UNCHANGED <<desc, src, phase, b, hdr, next_ifd_offset, tag_start, ifds,
                   visited, cog2, geokeys, rt, out2>>
    /\ UNCHANGED hvars

\* A second write_cog(cog), with no destination codec, on the Cog the first
\* call left and the same byte source.
write_again ==
    /\ pc = "written"
    /\ dst = NoCodec
    /\ \E r \in {write_result(cog, src, NoCodec)} :
         /\ cog' = r.cog
         /\ IF r.ok
            THEN /\ out2' = r.bytes /\ pc' = "rewritten" /\ err' = "none"
            ELSE /\ out2' = <<>> /\ pc' = "rewrite_failed" /\ err' = r.error
    /\ UNCHANGED <<desc, src, phase, b, hdr, next_ifd_offset, tag_start, ifds,
                   visited, pre, dst, out, cog2, geokeys, rt>>
    /\ UNCHANGED hvars

\* The round trip of testing.py: open_cog on the bytes write_cog returned.
reopen ==
    /\ pc = "written"
    /\ OpenStart(out, 2)
    /\ UNCHANGED <<desc, src, cog, pre, dst, out, cog2, rt, out2>>
    /\ UNCHANGED hvars

\* ------------------------------------------------------------------ read_tile
\* math.ceil(image_width / tile_width)
tile_columns(image_width, tile_width) == (image_width + tile_width - 1) \div tile_width

\* Mutant: the index taken column by column.
tile_index_column_major(x, y, columns) == (x * columns) + y

\* Tiles are stored row-major.
tile_index(x, y, columns) == (y * columns) + x

\* The decode branch of read_tile on the bytes read: the codec is looked up in
\* the registry (None for a code it does not hold), built from the IFD, and
\* called as decode(tile_content, ifd, endian), which Deflate.decode rejects.
read_tile_decode(tags, content) ==
    IF ~HasValue(tags, Compression) THEN [ok |-> FALSE, error |-> "KeyError"]
    ELSE IF Value0(tags, Compression) \notin codec_registry
    THEN [ok |-> FALSE, error |-> "AttributeError"]
    ELSE IF ~create_from_ifd_ok(Value0(tags, Compression), tags)
    THEN [ok |-> FALSE, error |-> "KeyError"]
    ELSE IF Value0(tags, Compression) # Jpeg_id
    THEN [ok |-> FALSE, error |-> "TypeError"]
    ELSE [ok |-> TRUE, decoded |-> TRUE, content |-> content]

\* read_tile(x, y, z, cog, decode) on the byte source: the offset sought, the
\* count asked for and what is returned, or the error raised.
read_tile_result(c, source, x, y, z, decode) ==
    IF z >= Len(c.ifds) THEN [ok |-> FALSE, error |-> "IndexError"]
    ELSE LET tags == c.ifds[z + 1].tags IN
    IF ~HasTag(tags, ImageWidth) \/ ~HasTag(tags, TileWidth)
    THEN [ok |-> FALSE, error |-> "KeyError"]
    ELSE IF ~HasValue(tags, ImageWidth) \/ ~HasValue(tags, TileWidth)
    THEN [ok |-> FALSE, error |-> "IndexError"]
    ELSE IF Value0(tags, TileWidth) = 0 THEN [ok |-> FALSE, error |-> "ZeroDivisionError"]
    ELSE LET idx == tile_index(x, y, tile_columns(Value0(tags, ImageWidth),
                                                  Value0(tags, TileWidth))) IN
    IF ~HasTag(tags, TileOffsets) \/ ~HasTag(tags, TileByteCounts)
    THEN [ok |-> FALSE, error |-> "KeyError"]
    ELSE IF idx >= Len(GetTag(tags, TileOffsets).value)
            \/ idx >= Len(GetTag(tags, TileByteCounts).value)
    THEN [ok |-> FALSE, error |-> "IndexError"]
    ELSE LET tile_offset == GetTag(tags, TileOffsets).value[idx + 1]
             tile_byte_count == GetTag(tags, TileByteCounts).value[idx + 1]
             tile_content == Slice(source, tile_offset, tile_offset + tile_byte_count)
         IN  IF decode
             THEN [seek |-> tile_offset, count |-> tile_byte_count]
                     @@ read_tile_decode(tags, tile_content)
             ELSE [ok |-> TRUE, decoded |-> FALSE, seek |-> tile_offset,
                   count |-> tile_byte_count, content |-> tile_content]

\* The caller reads one tile of the Cog, before any write_cog or after a
\* write_cog without a destination codec.
read_tile ==
    /\ pc = "opened" \/ (pc = "written" /\ dst = NoCodec)
    /\ \E x \in 0..1, y \in 0..1, z \in 0..(MaxIfds - 1), decode \in BOOLEAN :
          rt' = [kind |-> "tile", after_write |-> (pc = "written"),
                 x |-> x, y |-> y, z |-> z, decode |-> decode,
                 res |-> read_tile_result(cog, src, x, y, z, decode)]
    /\ pc' = "tile_read"
    /\ UNCHANGED <<desc, src, phase, err, b, hdr, next_ifd_offset, tag_start, ifds,
                   visited, cog, pre, dst, out, cog2, geokeys, out2>>
    /\ UNCHANGED hvars

\* ------------------------------------------------------------------ the caller
HIdle == h_pc = "idle" /\ h_in = <<>> /\ h_bytes = <<>> /\ h_out = HNone

Init ==
    /\ HIdle
    /\ \E p \in Params :
          /\ ParamOk(p)
          /\ desc = MakeDesc(p)
          /\ src = Damage(Build(MakeDesc(p)), MakeDesc(p))
    /\ pc = "start" /\ phase = 0 /\ err = "none"
    /\ b = <<>> /\ hdr = HNone /\ next_ifd_offset = 0 /\ tag_start = -1
    /\ ifds = <<>> /\ visited = <<>> /\ cog = <<>> /\ pre = <<>> /\ dst = NoCodec
    /\ out = <<>> /\ cog2 = <<>>
    /\ geokeys = <<>> /\ rt = RtNone /\ out2 = <<>>

Next == open_cog \/ read_ifd \/ open_return \/ write_cog \/ reopen \/ read_tile
          \/ write_again

Spec == Init /\ [][Next]_vars

\* ------------------------------------------------------------------ claims
\* What open_cog is to make of an IFD description: its registered entries, in
\* on-disk order, each with its type, count, size and values.
RECURSIVE ExpectedTags(_)
ExpectedTags(entries) ==
    IF entries = <<>> THEN <<>>
    ELSE (IF entries[1].code \in tag_registry
          THEN <<[id |-> entries[1].code, type |-> entries[1].type,
                  count |-> entries[1].count, size |-> entry_size(entries[1]),
                  value |-> entries[1].value]>>
          ELSE <<>>)
         \o ExpectedTags(Tail(entries))

\* The Cog the first open_cog returned (as write_cog found it, once it ran).
Opened ==
    \/ pc \in {"opened", "written", "write_failed", "reopened", "tile_read",
              "rewritten", "rewrite_failed"}
    \/ phase = 2
FirstCog == IF pre # <<>> THEN pre ELSE cog

\* write_cog returned bytes (they stay in out while they are read back).
Written == pc \in {"written", "reopened"} \/ (phase = 2)

\* C1: write round trip without transcoding. For every Cog open_cog returns,
\* write_cog with no destination codec returns bytes, and open_cog of those bytes
\* returns a Cog with an equal header, as many IFDs and, in every IFD, the same
\* tags in the same order with equal id, type, count and value.
C1_WriteRoundTrip ==
    /\ (pc = "write_failed" => dst # NoCodec)
    /\ (phase = 2 /\ dst = NoCodec => pc # "open_failed")
    /\ (pc = "reopened" /\ dst = NoCodec =>
          /\ cog2.header = cog.header
          /\ Len(cog2.ifds) = Len(cog.ifds)
          /\ \A i \in 1..Len(cog.ifds) : cog2.ifds[i].tags = cog.ifds[i].tags)

\* C3: IFD chain termination. open_cog's loop follows the next-IFD offsets from
\* first_ifd_offset until 0 and visits every IFD once: no offset is parsed
\* twice, and the Cog returned holds the IFDs of the chain in chain order.
C3_ChainTermination ==
    /\ \A i, j \in 1..Len(visited) : i # j => visited[i] # visited[j]
    /\ (phase = 1 /\ pc = "opened" =>
          visited = [i \in 1..Len(desc.ifds) |-> desc.ifds[i].start])

\* The output as the claims read it: integers at an offset of out, and the
\* extent of an IFD computed from the counts and types of its tags.
U16(off) == from_bytes(Slice(out, off, off + 2), cog.header.endian)
U32(off) == from_bytes(Slice(out, off, off + 4), cog.header.endian)

TagBytes(t) == t.count * TAG_TYPES(t.type)

RECURSIVE OutOfLine(_)
OutOfLine(tags) ==
    IF tags = <<>> THEN 0
    ELSE (IF TagBytes(tags[1]) > 4 THEN TagBytes(tags[1]) ELSE 0) + OutOfLine(Tail(tags))

BodySize(tags) == 2 + 12 * Len(tags) + 4

\* Where IFD i of the output starts; OutStart(N + 1) is where the tiles start.
RECURSIVE OutStart(_)
OutStart(i) ==
    IF i = 1 THEN 8
    ELSE OutStart(i - 1) + BodySize(cog.ifds[i - 1].tags) + OutOfLine(cog.ifds[i - 1].tags)

NIfds == Len(cog.ifds)
EntryAt(i, k) == OutStart(i) + 2 + 12 * (k - 1)

\* C4: the next-IFD links of the output form a singly linked list. The first
\* IFD starts at 8, IFD i of the output is cog.ifds[i], the last 4 bytes of its
\* body hold the start of IFD i + 1 (the start of IFD i + 2 + 12 * |tags| + 4 +
\* the size of its out-of-line values), and the last IFD's hold 0.
C4_NextIfdLinks ==
    Written =>
       /\ U32(4) = 8
       /\ \A i \in 1..NIfds :
            LET tags == cog.ifds[i].tags IN
            /\ U16(OutStart(i)) = Len(tags)
            /\ \A k \in 1..Len(tags) :
                  /\ U16(EntryAt(i, k)) = tags[k].id
                  /\ U32(EntryAt(i, k) + 4) = tags[k].count
            /\ U32(OutStart(i) + 2 + 12 * Len(tags)) =
                  IF i = NIfds THEN 0 ELSE OutStart(i + 1)

C4_Witness ==
    /\ pc = "written"
    /\ NIfds = 2
    /\ OutOfLine(cog.ifds[1].tags) > 0
    /\ U32(OutStart(1) + 2 + 12 * Len(cog.ifds[1].tags)) = OutStart(2)
    /\ U32(OutStart(2) + 2 + 12 * Len(cog.ifds[2].tags)) = 0

\* C5: tag inline/offset boundary in the output. Every entry is 12 bytes: id,
\* type, count and 4 more. If count * type.length <= 4 these hold the packed
\* value, left-aligned and zero-padded; otherwise an offset at or after the end
\* of the IFD's body and before the next IFD, at which the output holds the
\* packed value; the out-of-line values of one IFD do not overlap.
C5_TagBoundary ==
    Written =>
       \A i \in 1..NIfds :
          LET tags == cog.ifds[i].tags
              e == cog.header.endian
          IN
          /\ \A k \in 1..Len(tags) :
                LET t == tags[k]
                    at == EntryAt(i, k)
                    sz == TagBytes(t)
                IN
                /\ U16(at) = t.id /\ U16(at + 2) = t.type /\ U32(at + 4) = t.count
                /\ IF sz <= 4
                   THEN /\ unpack(e, t.count, t.type, Slice(out, at + 8, at + 8 + sz)) = t.value
                        /\ Slice(out, at + 8 + sz, at + 12) = Zeros(4 - sz)
                   ELSE /\ U32(at + 8) >= OutStart(i) + BodySize(tags)
                        /\ U32(at + 8) + sz <= OutStart(i + 1)
                        /\ unpack(e, t.count, t.type,
                                  Slice(out, U32(at + 8), U32(at + 8) + sz)) = t.value
          /\ \A k1, k2 \in 1..Len(tags) :
                (k1 < k2 /\ TagBytes(tags[k1]) > 4 /\ TagBytes(tags[k2]) > 4) =>
                   \/ U32(EntryAt(i, k1) + 8) + TagBytes(tags[k1]) <= U32(EntryAt(i, k2) + 8)
                   \/ U32(EntryAt(i, k2) + 8) + TagBytes(tags[k2]) <= U32(EntryAt(i, k1) + 8)

C5_Witness ==
    /\ pc = "written"
    /\ \E i \in 1..NIfds : \E k1, k2, k3 \in 1..Len(cog.ifds[i].tags) :
          /\ k1 < k2
          /\ TagBytes(cog.ifds[i].tags[k1]) > 4
          /\ TagBytes(cog.ifds[i].tags[k2]) > 4
          /\ TagBytes(cog.ifds[i].tags[k3]) = 2

\* The tiles of the output. The payload of tile j of IFD i is the tile of the
\* input file, re-encoded when a destination codec was given.
TileOffsetsOf(i) == GetTag(cog.ifds[i].tags, TileOffsets).value
TileByteCountsOf(i) == GetTag(cog.ifds[i].tags, TileByteCounts).value

Payload(i, j) ==
    IF dst.kind = "none" THEN desc.ifds[i].tiles[j] ELSE encode(desc.ifds[i].tiles[j], dst)

\* The bytes of the tiles of the IFDs after IFD i.
RECURSIVE TilesAfter(_)
TilesAfter(i) ==
    IF i >= NIfds THEN 0 ELSE SumSeq(TileByteCountsOf(i + 1)) + TilesAfter(i + 1)

\* C6: tile offset consistency after write_cog. The tiles follow all IFDs,
\* grouped per IFD from the last IFD to IFD 0 and in TileOffsets order within
\* an IFD; the rewritten TileOffsets start where the tiles start and are
\* contiguous, and the output bytes [TileOffsets[j], TileOffsets[j] +
\* TileByteCounts[j]) are the payload of tile j.
C6_TileOffsets ==
    Written =>
       \A i \in 1..NIfds :
          /\ Len(TileOffsetsOf(i)) = Len(desc.ifds[i].tiles)
          /\ \A j \in 1..Len(TileOffsetsOf(i)) :
                /\ TileOffsetsOf(i)[j] =
                      OutStart(NIfds + 1) + TilesAfter(i)
                        + SumSeq(SubSeq(TileByteCountsOf(i), 1, j - 1))
                /\ Slice(out, TileOffsetsOf(i)[j], TileOffsetsOf(i)[j] + TileByteCountsOf(i)[j])
                      = Payload(i, j)

C6_Witness ==
    /\ pc = "written"
    /\ dst = NoCodec
    /\ NIfds = 2
    /\ Len(TileOffsetsOf(1)) = 2
    /\ Len(TileOffsetsOf(2)) = 1
    /\ TileOffsetsOf(2)[1] = OutStart(3)
    /\ TileOffsetsOf(1)[1] > TileOffsetsOf(2)[1]

RECURSIVE IfdsExtent(_)
IfdsExtent(i) ==
    IF i = 0 THEN 0
    ELSE IfdsExtent(i - 1) + BodySize(cog.ifds[i].tags) + OutOfLine(cog.ifds[i].tags)

RECURSIVE AllTileBytes(_)
AllTileBytes(i) == IF i = 0 THEN 0 ELSE AllTileBytes(i - 1) + SumSeq(TileByteCountsOf(i))

\* C7: output size sanity. The length of the bytes write_cog returns is 8 + the
\* sum over the IFDs of (2 + 12 * |tags| + 4 + the size of the IFD's out-of-line
\* values) + the sum of every IFD's (new) TileByteCounts.
C7_OutputSize ==
    Written => Len(out) = 8 + IfdsExtent(NIfds) + AllTileBytes(NIfds)

C7_Witness ==
    /\ pc = "written"
    /\ NIfds = 2
    /\ AllTileBytes(NIfds) > 0
    /\ IfdsExtent(NIfds) > BodySize(cog.ifds[1].tags) + BodySize(cog.ifds[2].tags)
    /\ Len(out) = 8 + IfdsExtent(NIfds) + AllTileBytes(NIfds)

\* C8: in the output of write_cog, with or without a destination codec, the
\* entries of every IFD are in strictly ascending tag-id order.
C8_TagsAscending ==
    Written =>
       \A i \in 1..NIfds : \A k \in 1..(U16(OutStart(i)) - 1) :
          U16(EntryAt(i, k)) < U16(EntryAt(i, k + 1))

\* The tiles write_cog read from the source: one per pair of the TileOffsets
\* and TileByteCounts the IFD had before the call.
PreOffsets(i) == GetTag(pre.ifds[i].tags, TileOffsets).value
PreByteCounts(i) == GetTag(pre.ifds[i].tags, TileByteCounts).value
PreTiles(i) == Min(Len(PreOffsets(i)), Len(PreByteCounts(i)))
PreContent(i, j) == Slice(src, PreOffsets(i)[j], PreOffsets(i)[j] + PreByteCounts(i)[j])

\* C9: transcode tile counts. After write_cog(cog, dst_codec) returns, every
\* IFD has as many TileOffsets and TileByteCounts as it had tiles before the
\* call, and TileByteCounts[j] is the length of the re-encoded payload of tile
\* j, which the output holds at TileOffsets[j].
C9_TranscodeTileCounts ==
    (Written /\ dst.kind # "none") =>
       \A i \in 1..NIfds :
          /\ Len(TileOffsetsOf(i)) = PreTiles(i)
          /\ Len(TileByteCountsOf(i)) = PreTiles(i)
          /\ \A j \in 1..PreTiles(i) :
                /\ TileByteCountsOf(i)[j] = Len(encode(PreContent(i, j), dst))
                /\ SubSeq(out, TileOffsetsOf(i)[j] + 1,
                          TileOffsetsOf(i)[j] + TileByteCountsOf(i)[j])
                      = encode(PreContent(i, j), dst)

C9_Witness ==
    /\ pc = "written"
    /\ dst.kind = "jpeg"
    /\ dst.grow
    /\ NIfds = 2
    /\ PreByteCounts(1) = <<2, 3>>
    /\ TileByteCountsOf(1) = <<4, 5>>
    /\ TileByteCountsOf(2) = <<5>>

UnknownVariants == {"unknown_first", "unknown_mid", "unknown_last", "unknown_all"}

\* C10: an unknown tag code is not fatal in open_cog. An entry whose code is
\* not registered is skipped, every registered entry of the IFD is parsed with
\* its type, count and value, in order, and the next-IFD offset is the one that
\* follows the last of the IFD's on-disk entries.
C10_UnknownTagSkipped ==
    phase = 1 =>
       /\ (desc.variant \in UnknownVariants => pc # "open_failed")
       /\ \A i \in 1..Min(Len(ifds), Len(desc.ifds)) :
             desc.ifds[i].entries # <<>> =>
                /\ ifds[i].tags = ExpectedTags(desc.ifds[i].entries)
                /\ ifds[i].tag_count = Len(desc.ifds[i].entries)
                /\ ifds[i].next_ifd_offset = desc.ifds[i].next

C10_Witness ==
    /\ phase = 1
    /\ pc = "opened"
    /\ desc.variant = "unknown_last"
    /\ Len(cog.ifds) = 2
    /\ cog.ifds[1].next_ifd_offset = desc.ifds[2].start
    /\ cog.ifds[1].tag_count = Len(cog.ifds[1].tags) + 1
    /\ ~HasTag(cog.ifds[1].tags, 400)

\* C11: fatal reader failures. open_cog returns no Cog for an input whose magic
\* is neither 'II' nor 'MM', whose version is neither 42 nor 43, whose buffer
\* is shorter than the 8-byte header, or in which a registered tag with
\* size > 4 has a value that does not lie inside the buffer.
C11_FatalReaderFailures ==
    desc.variant \in FatalVariants => ~Opened

\* The keys of a GeoKeyDirectory value after its header, as the tag holds them.
DirKeys(value) ==
    [k \in 1..((Len(value) \div 4) - 1) |->
        [id |-> value[4 * k + 1], tag_location |-> value[4 * k + 2],
         count |-> value[4 * k + 3], value_offset |-> value[4 * k + 4]]]

\* The GeoKeyDirectory value of the IFD whose geokeys are geokeys[n].
DirOf(n) == GetTag(ifds[geokeys[n].ifd].tags, GeoKeyDirectory).value

C16_UnknownGeoKeySkipped ==
    phase = 1 =>
       /\ (desc.variant \in {"geo_unknown_indirect", "geo_unknown_direct"} =>
              pc # "open_failed")
       /\ \A n \in 1..Len(geokeys) :
             LET keys == DirKeys(DirOf(n)) IN
             \A k \in 1..Len(keys) :
                (keys[k].id \in geokey_registry /\ keys[k].tag_location = 0) =>
                   \E m \in 1..Len(geokeys[n].keys) :
                      /\ geokeys[n].keys[m].id = keys[k].id
                      /\ geokeys[n].keys[m].value_offset = keys[k].value_offset

\* The tile a read_tile call addresses, as the tags of its IFD give it.
RtTags == cog.ifds[rt.z + 1].tags
RtColumns == tile_columns(Value0(RtTags, ImageWidth), Value0(RtTags, TileWidth))
RtIdx == rt.y * RtColumns + rt.x
RtInRange ==
    /\ rt.kind = "tile"
    /\ rt.z < Len(cog.ifds)
    /\ HasValue(RtTags, ImageWidth) /\ HasValue(RtTags, TileWidth)
    /\ HasTag(RtTags, TileOffsets) /\ HasTag(RtTags, TileByteCounts)
    /\ rt.x < RtColumns
    /\ RtIdx < Len(GetTag(RtTags, TileOffsets).value)
    /\ RtIdx < Len(GetTag(RtTags, TileByteCounts).value)

\* C13: tile ordering law. With columns = ceil(ImageWidth / TileWidth), for a
\* tile position with 0 <= x < columns and y * columns + x < len(TileOffsets),
\* read_tile(x, y, level, cog, decode=False) seeks to TileOffsets[y*columns + x],
\* reads TileByteCounts[y*columns + x] bytes and returns the bytes the source
\* holds there (before any write: the payload of that tile); another in-range
\* position addresses another tile index.
C13_TileOrdering ==
    (RtInRange /\ ~rt.decode) =>
       /\ rt.res.ok
       /\ rt.res.seek = GetTag(RtTags, TileOffsets).value[RtIdx + 1]
       /\ rt.res.count = GetTag(RtTags, TileByteCounts).value[RtIdx + 1]
       /\ rt.res.content = Slice(src, rt.res.seek, rt.res.seek + rt.res.count)
       /\ (~rt.after_write =>
             rt.res.content = desc.ifds[rt.z + 1].tiles[RtIdx + 1])
       /\ \A x2 \in 0..(RtColumns - 1), y2 \in 0..MaxTiles :
             <<x2, y2>> # <<rt.x, rt.y>> => tile_index(x2, y2, RtColumns) # RtIdx

\* The second tile of a one-column IFD (ImageWidth 20, TileWidth 32), read raw.
C13_Witness ==
    /\ pc = "tile_read"
    /\ RtInRange
    /\ ~rt.decode /\ ~rt.after_write
    /\ rt.x = 0 /\ rt.y = 1 /\ rt.z = 0
    /\ RtColumns = 1
    /\ rt.res.ok
    /\ rt.res.content = <<18, 18, 18>>

\* Tags that name no codec of the registry: no Compression tag, or a code the
\* registry does not hold.
NoCodecFor(tags) ==
    ~HasValue(tags, Compression) \/ Value0(tags, Compression) \notin codec_registry

\* C14: an unknown compression code is fatal only when decoding is requested.
\* read_tile with decode=True fails on an IFD whose Compression code is not in
\* the codec registry; read_tile with decode=False and write_cog with no
\* destination codec complete on a Cog whose IFDs have an unregistered
\* Compression code or no Compression tag.
C14_UnknownCompression ==
    /\ (rt.kind = "tile" /\ rt.z < Len(cog.ifds) /\ rt.decode
          /\ HasValue(RtTags, Compression)
          /\ Value0(RtTags, Compression) \notin codec_registry) => ~rt.res.ok
    /\ (RtInRange /\ ~rt.decode /\ NoCodecFor(RtTags)) => rt.res.ok
    /\ (pc = "write_failed" /\ dst = NoCodec) =>
          \A i \in 1..Len(pre.ifds) : ~NoCodecFor(pre.ifds[i].tags)

\* An IFD that write_cog can transcode with dst: its source codec is the
\* registered Jpeg, built from the IFD's tags, and decodes the IFD's tiles.
Transcodable(tags, i) ==
    /\ HasValue(tags, Compression)
    /\ Value0(tags, Compression) = Jpeg_id
    /\ create_from_ifd_ok(Jpeg_id, tags)
    /\ HasTag(tags, TileOffsets) /\ HasTag(tags, TileByteCounts)
    /\ decode_ok(Jpeg_id, i, dst)

\* C15: transcode tag removal. After write_cog(cog, dst_codec) returns, no IFD
\* holds a tag that dst_codec.delete_tags() lists, and a source IFD is
\* transcoded whether or not it has a JPEGTables tag: the call does not fail on
\* a Cog whose IFDs can all be transcoded.
C15_TranscodeTagRemoval ==
    /\ (Written /\ dst.kind # "none") =>
          \A i \in 1..NIfds : \A id \in delete_tags(dst) : ~HasTag(cog.ifds[i].tags, id)
    /\ (pc = "write_failed" /\ dst.kind # "none") =>
          \E i \in 1..Len(pre.ifds) : ~Transcodable(pre.ifds[i].tags, i)

\* A tag with another value.
WithValue(tag, value) == [tag EXCEPT !.value = value]

\* C17: frame of write_cog without a destination codec. The call changes only
\* header.first_ifd_offset (set to 8) and the value of each IFD's TileOffsets
\* tag: the endianness and version, the number and order of the IFDs, the set
\* and order of each IFD's tags and every other tag, TileByteCounts included,
\* stay as they were, and the byte source is left as it was.
C17_WriteFrame ==
    (pre # <<>> /\ dst = NoCodec) =>
       /\ cog.header = [pre.header EXCEPT !.first_ifd_offset = 8]
       /\ Len(cog.ifds) = Len(pre.ifds)
       /\ \A i \in 1..Len(pre.ifds) :
             /\ cog.ifds[i].tag_count = pre.ifds[i].tag_count
             /\ cog.ifds[i].next_ifd_offset = pre.ifds[i].next_ifd_offset
             /\ TagIds(cog.ifds[i].tags) = TagIds(pre.ifds[i].tags)
             /\ \A k \in 1..Len(pre.ifds[i].tags) :
                   IF pre.ifds[i].tags[k].id = TileOffsets
                   THEN WithValue(cog.ifds[i].tags[k], pre.ifds[i].tags[k].value)
                           = pre.ifds[i].tags[k]
                   ELSE cog.ifds[i].tags[k] = pre.ifds[i].tags[k]
       /\ src = Damage(Build(desc), desc)

C17_Witness ==
    /\ pc = "written"
    /\ dst = NoCodec
    /\ Len(pre.ifds) = 2
    /\ pre.header.first_ifd_offset = 8 + GhostLen
    /\ cog.header.first_ifd_offset = 8
    /\ GetTag(cog.ifds[1].tags, TileOffsets).value # GetTag(pre.ifds[1].tags, TileOffsets).value
    /\ GetTag(cog.ifds[1].tags, TileByteCounts).value = <<2, 3>>

\* What read_tile returned, or would have, for the same tile before the write.
RtBefore == read_tile_result(pre, src, rt.x, rt.y, rt.z, FALSE)

\* C18: reads stay valid after a write. On an unchanged byte source, after
\* write_cog(cog) returned, read_tile(x, y, level, cog, decode=False) returns
\* for every tile the bytes it returned before the write, and a second
\* write_cog(cog) returns the bytes the first returned.
C18_ReadsAfterWrite ==
    /\ (rt.kind = "tile" /\ rt.after_write /\ ~rt.decode /\ RtBefore.ok) =>
          rt.res.ok /\ rt.res.content = RtBefore.content
    /\ pc # "rewrite_failed"
    /\ pc = "rewritten" => out2 = out

\* The value of a tag of an IFD, or none when the IFD does not hold the tag.
ValueOf(tags, id) == IF HasTag(tags, id) THEN <<GetTag(tags, id).value>> ELSE <<>>

\* C19: failure atomicity of write_cog. If write_cog(cog, dst_codec) raises, the
\* Cog is as it was before the call: header.first_ifd_offset and every IFD's
\* tag set, TileByteCounts and TileOffsets values are unchanged, also for the
\* IFDs processed before the failing one.
C19_FailureAtomicity ==
    pc = "write_failed" =>
       /\ cog.header.first_ifd_offset = pre.header.first_ifd_offset
       /\ Len(cog.ifds) = Len(pre.ifds)
       /\ \A i \in 1..Len(pre.ifds) :
             /\ TagIds(cog.ifds[i].tags) = TagIds(pre.ifds[i].tags)
             /\ ValueOf(cog.ifds[i].tags, TileByteCounts)
                   = ValueOf(pre.ifds[i].tags, TileByteCounts)
             /\ ValueOf(cog.ifds[i].tags, TileOffsets)
                   = ValueOf(pre.ifds[i].tags, TileOffsets)
====
